---- MODULE Spec2Model ----
(***************************************************************************)
(* Generation Session Engine of the WisianCorp client (src/index.tsx):     *)
(* the credential gate, the streaming generation controller and the        *)
(* bounded, persisted history vault of the App component.                  *)
(*                                                                         *)
(* React state is modelled by one variable per useState cell.  One action  *)
(* is one synchronous run of a handler (up to its next await) together     *)
(* with the render and the passive effects that React flushes before the   *)
(* next event is handled.  Texts are sequences of tokens, so that          *)
(* concatenation and String.includes are computed, not assumed.            *)
(***************************************************************************)
EXTENDS Integers, Sequences, FiniteSets, TLC

(***************************************************************************)
(* Bounds of the model                                                     *)
(***************************************************************************)
MaxRequests == 1        \* generation attempts that may settle before no further
                        \* request to generate is taken up
MaxChunks == 2          \* increments delivered by one stream
MaxAuthFlows == 1       \* credential-selection dialogs opened by handleAuth
                        \* and not yet closed

(***************************************************************************)
(* Program constants                                                       *)
(***************************************************************************)
HistoryCap == 15

TOOL_CATEGORIES ==
  << [id |-> "leadership", name |-> "Executive"],
     [id |-> "teacher",    name |-> "Educators"],
     [id |-> "admin",      name |-> "Operations"],
     [id |-> "learner",    name |-> "Development"] >>

TOOLS_CONFIG ==
  << [id |-> "strategy-toolkit", categoryId |-> "leadership", name |-> "Strategic Roadmap", modelTier |-> "pro",
      basePrompt |-> "Draft a high-level strategic roadmap or executive memo. Treat the Principal as a CEO. Use corporate management frameworks (SWOT, OKRs) applied to education.",
      examplePrompt |-> "Scenario: transitioning a traditional school to a digital-first curriculum over 24 months with limited budget."],
     [id |-> "sgb-governance", categoryId |-> "leadership", name |-> "Governance & Compliance", modelTier |-> "pro",
      basePrompt |-> "Draft a formal governance policy or resolution. Ensure strict adherence to South African legal frameworks and corporate governance best practices.",
      examplePrompt |-> "Draft a Conflict of Interest policy for the School Governing Body members."],
     [id |-> "lesson-plan", categoryId |-> "teacher", name |-> "Curriculum Architect", modelTier |-> "pro",
      basePrompt |-> "Design a comprehensive, high-fidelity lesson plan. Focus on innovative pedagogy, differentiation strategies, and measurable outcomes.",
      examplePrompt |-> "Grade 11 Physical Sciences: Intermolecular Forces. 60-minute active learning session."],
     [id |-> "assessment-gen", categoryId |-> "teacher", name |-> "Assessment Engine", modelTier |-> "flash",
      basePrompt |-> "Create a formal assessment instrument with a marking matrix and cognitive level analysis (Bloom's).",
      examplePrompt |-> "Grade 10 Business Studies: Creative Thinking and Problem Solving. Case study based assessment."],
     [id |-> "parent-comms", categoryId |-> "admin", name |-> "Stakeholder Comms", modelTier |-> "flash",
      basePrompt |-> "Draft a professional stakeholder communication. Tone should be reassuring, clear, and authoritative yet empathetic.",
      examplePrompt |-> "Urgent notice regarding a change in exam timetables due to unforeseen circumstances."],
     [id |-> "fundraising-pro", categoryId |-> "admin", name |-> "Capital Raising", modelTier |-> "pro",
      basePrompt |-> "Write a persuasive corporate sponsorship proposal. Focus on CSI (Corporate Social Investment) benefits and tangible ROI for the sponsor.",
      examplePrompt |-> "Proposal to a telecommunications company to sponsor fibre internet installation."],
     [id |-> "study-guide", categoryId |-> "learner", name |-> "Knowledge Synthesizer", modelTier |-> "flash",
      basePrompt |-> "Synthesize complex curriculum topics into high-impact \"Cheat Sheets\" or summaries. Use mnemonics and clear structure.",
      examplePrompt |-> "Grade 12 History: The collapse of the USSR. Key timeline and causes."] >>

AccessDeniedMsg == << "### Access Denied", "Wisian Corporation Protocol: Please authenticate to access the intelligence engine." >>

AuthFailedMsg == << "### Authentication Failed", "Security Protocol: API Key invalid or missing. Please reconnect." >>

NetworkMsg == << "### Network Interruption", "The Wisian Link is experiencing latency. Retrying connection..." >>

DefaultContext == << "Standard operating procedure." >>

NotFoundNeedle == << "Requested", "entity", "was", "not", "found" >>

ApiKeyNeedle == << "API_KEY" >>

(***************************************************************************)
(* Inputs of the environment                                               *)
(***************************************************************************)
\* the text of the k-th increment of a stream: streams differ in where they
\* end, and no two increments of a stream carry the same text
ChunkText(k) == << "chunk", ToString(k) >>

\* the categories and the tools the user clicks on: the first and the last of
\* the catalog
UserCategories == { "leadership", "learner" }

UserTools == { 1, Len(TOOLS_CONFIG) }

\* texts typed into the context field: nothing, white space only, and texts
\* with and without white space around them
Contexts ==
  { << >>,
    << " " >>,
    << " ", "\n" >>,
    << "Grade", " ", "10" >>,
    << " ", "CAPS", "\n" >> }

\* values a generation may throw: a value without a message, or an Error
\* whose message is one of these texts
FaultMessages ==
  { << "fetch", "failed:", "api_key", "entity", "not", "found" >>,
    << "API_KEY", "not", "valid" >>,
    << "Requested", "entity", "was", "not", "found" >>,
    << "API_KEY", "rejected:", "Requested", "entity", "was", "not", "found" >> }

NoMessageFault == [hasMessage |-> FALSE, message |-> << >>]

Faults == { NoMessageFault } \cup { [hasMessage |-> TRUE, message |-> m] : m \in FaultMessages }

(***************************************************************************)
(* Pure helpers                                                            *)
(***************************************************************************)
Min(a, b) == IF a <= b THEN a ELSE b

\* String.prototype.includes on token texts: needle occurs contiguously
Includes(hay, needle) ==
  \E i \in 1..(Len(hay) + 1) :
     /\ i + Len(needle) - 1 <= Len(hay)
     /\ SubSeq(hay, i, i + Len(needle) - 1) = needle

\* error?.message?.includes(needle): undefined (falsy) when there is no message
MessageIncludes(error, needle) == error.hasMessage /\ Includes(error.message, needle)

\* Array.prototype.find: the smallest of the matching indices, 0 when there is none
FirstOf(matches) ==
  IF matches = { } THEN 0 ELSE CHOOSE i \in matches : \A j \in matches : i <= j

\* TOOL_CATEGORIES.find(c => c.id === activeCategory)?.name || ''
CategoryNameOf(catId) ==
  LET i == FirstOf({ c \in 1..Len(TOOL_CATEGORIES) : TOOL_CATEGORIES[c].id = catId })
  IN  IF i = 0 THEN "" ELSE TOOL_CATEGORIES[i].name

\* TOOLS_CONFIG.filter(t => t.categoryId === activeCategory)
FilteredTools(catId) == { i \in 1..Len(TOOLS_CONFIG) : TOOLS_CONFIG[i].categoryId = catId }

\* the category effect: the tool selected after it ran for category catId
FirstOfCat(catId, current) ==
  LET i == FirstOf(FilteredTools(catId))
  IN  IF i = 0 THEN current ELSE TOOLS_CONFIG[i]

\* the white space String.prototype.trim removes
WhiteSpace == { " ", "\n", "\t" }

RECURSIVE TrimStart(_)
TrimStart(text) ==
  IF text # << >> /\ Head(text) \in WhiteSpace THEN TrimStart(Tail(text)) ELSE text

RECURSIVE TrimEnd(_)
TrimEnd(text) ==
  IF text # << >> /\ text[Len(text)] \in WhiteSpace THEN TrimEnd(SubSeq(text, 1, Len(text) - 1)) ELSE text

Trim(text) == TrimEnd(TrimStart(text))

\* the userPrompt template literal of handleGenerate; promptInput || default
\* takes the default for the empty string only
UserPrompt(tool, input) ==
  Trim(<< "\n", "**Directive:**", "Execute the following task using the", tool.name, "module.",
          "\n", "**Context:**" >>
       \o (IF input = << >> THEN DefaultContext ELSE input)
       \o << "\n", "**Core Task:**", tool.basePrompt, "\n" >>)

\* variant of FailureMessage that never looks at the fault
FailureMessageGeneric(error) == NetworkMsg

\* the message shown for a caught generation fault
FailureMessage(error) == IF MessageIncludes(error, ApiKeyNeedle) THEN AuthFailedMsg ELSE NetworkMsg

\* variant of IsStaleCredential that takes every fault with a message for a stale credential
IsStaleCredentialAnyMessage(error) == error.hasMessage

\* whether a caught generation fault resets the key selection state
IsStaleCredential(error) == MessageIncludes(error, NotFoundNeedle)

\* variant of Record without the slice
RecordUnbounded(prev, newResource) == << newResource >> \o prev

\* prev => [newResource, ...prev].slice(0, 15)
Record(prev, newResource) ==
  SubSeq(<< newResource >> \o prev, 1, Min(HistoryCap, Len(prev) + 1))

\* a sequence without its i-th element
RemoveAt(seq, i) == SubSeq(seq, 1, i - 1) \o SubSeq(seq, i + 1, Len(seq))

(***************************************************************************)
(* The durable snapshot: JSON.stringify / JSON.parse of the vault, as a    *)
(* token text.  An entry is  { id toolName categoryName " content " ts }   *)
(***************************************************************************)
\* the clock values an entry of this model can carry
ClockRange == 0..(HistoryCap + MaxRequests)

EncodeEntry(e) ==
  << "{", e.id, e.toolName, e.categoryName, "\"" >> \o e.content \o << "\"", ToString(e.timestamp), "}" >>

RECURSIVE EncodeEntries(_)
EncodeEntries(v) == IF v = << >> THEN << >> ELSE EncodeEntry(Head(v)) \o EncodeEntries(Tail(v))

Stringify(v) == << "[" >> \o EncodeEntries(v) \o << "]" >>

IsNumeral(tok) == \E n \in ClockRange : ToString(n) = tok

NumeralValue(tok) == CHOOSE n \in ClockRange : ToString(n) = tok

\* parse the entries between the brackets; ok is FALSE on a syntax error
RECURSIVE ParseEntries(_)
ParseEntries(toks) ==
  IF toks = << >> THEN [ok |-> TRUE, value |-> << >>]
  ELSE IF Len(toks) < 8 \/ toks[1] # "{" \/ toks[5] # "\"" THEN [ok |-> FALSE, value |-> << >>]
  ELSE IF ~ \E q \in 6..(Len(toks) - 2) : toks[q] = "\"" THEN [ok |-> FALSE, value |-> << >>]
  ELSE LET q == CHOOSE j \in 6..(Len(toks) - 2) : toks[j] = "\"" /\ \A k \in 6..(j - 1) : toks[k] # "\""
       IN  IF ~ IsNumeral(toks[q + 1]) \/ toks[q + 2] # "}" THEN [ok |-> FALSE, value |-> << >>]
           ELSE LET entry == [id |-> toks[2], toolName |-> toks[3], categoryName |-> toks[4],
                              content |-> SubSeq(toks, 6, q - 1), timestamp |-> NumeralValue(toks[q + 1])]
                    rest  == ParseEntries(SubSeq(toks, q + 3, Len(toks)))
                IN  IF rest.ok THEN [ok |-> TRUE, value |-> << entry >> \o rest.value]
                    ELSE [ok |-> FALSE, value |-> << >>]

\* JSON.parse: ok is FALSE where JSON.parse throws
Parse(text) ==
  IF Len(text) < 2 \/ text[1] # "[" \/ text[Len(text)] # "]" THEN [ok |-> FALSE, value |-> << >>]
  ELSE ParseEntries(SubSeq(text, 2, Len(text) - 1))

\* localStorage under the key 'wisian_history': absent (getItem gives null) or a text
Absent == [present |-> FALSE, text |-> << >>]

Stored(text) == [present |-> TRUE, text |-> text]

\* variant of LoadHistory that keeps a text it cannot decode as one entry
LoadHistoryKeepsRaw(store) ==
  IF ~store.present \/ store.text = << >> THEN [set |-> FALSE, value |-> << >>, failed |-> FALSE]
  ELSE LET parsed == Parse(store.text)
       IN  IF parsed.ok THEN [set |-> TRUE, value |-> parsed.value, failed |-> FALSE]
           ELSE [set |-> TRUE, failed |-> TRUE,
                 value |-> << [id |-> "0", toolName |-> "", categoryName |-> "",
                               content |-> store.text, timestamp |-> 0] >>]

\* the load-history effect: the value it passes to setSavedResources, if any;
\* failed where JSON.parse threw and the catch logged it
LoadHistory(store) ==
  IF ~store.present \/ store.text = << >> THEN [set |-> FALSE, value |-> << >>, failed |-> FALSE]
  ELSE LET parsed == Parse(store.text)
       IN  IF parsed.ok THEN [set |-> TRUE, value |-> parsed.value, failed |-> FALSE]
           ELSE [set |-> FALSE, value |-> << >>, failed |-> TRUE]

(***************************************************************************)
(* Snapshots an earlier run of the program can have left behind            *)
(***************************************************************************)
PriorEntry(i) ==
  LET tool == TOOLS_CONFIG[((i - 1) % Len(TOOLS_CONFIG)) + 1]
  IN  [id |-> ToString(i), toolName |-> tool.name, categoryName |-> CategoryNameOf(tool.categoryId),
       content |-> << "Report" >>, timestamp |-> i]

\* k entries, newest first
PriorVault(k) == [j \in 1..k |-> PriorEntry(k + 1 - j)]

InitVaultLens == { 0, HistoryCap - 1, HistoryCap }

\* a snapshot cut off in the middle of an entry: not valid JSON
CorruptSnapshot == << "[", "{", "1" >>

InitStores == { Absent, Stored(CorruptSnapshot) } \cup { Stored(Stringify(PriorVault(k))) : k \in InitVaultLens }

(***************************************************************************)
(* State                                                                   *)
(***************************************************************************)
VARIABLES
  aistudio,        \* window.aistudio exists (the interactive credential capability)
  envKey,          \* process.env.API_KEY is a non-empty string
  mounted,         \* the mount effects have run
  activeCategory,  \* useState: id of the active category
  selectedTool,    \* useState: the selected ToolConfig
  promptInput,     \* useState: the text of the context field
  isGenerating,    \* useState
  output,          \* useState: the visible output text
  savedResources,  \* useState: the in-memory vault, newest first
  apiStatus,       \* useState: 'online' | 'error' | 'idle'
  hasAccess,       \* useState
  storage,         \* localStorage item 'wisian_history'
  now,             \* the last value Date.now() returned
  sessions,        \* the handleGenerate invocations suspended at an await
  requests,        \* generateContentStream calls issued so far
  authChecks,      \* checkAuth calls suspended at hasSelectedApiKey()
  authFlows,       \* handleAuth calls suspended at openSelectKey()
  parseFailures,   \* "Failed to parse history" errors written to the console
  clearanceAlert   \* alert("Security Clearance required. ...") has been raised

envVars == << aistudio, envKey >>

catalogVars == << activeCategory, selectedTool, promptInput >>

gateVars == << apiStatus, hasAccess >>

vaultVars == << savedResources, storage, now >>

authVars == << authChecks, authFlows >>

logVars == << parseFailures, clearanceAlert >>

vars == << aistudio, envKey, mounted, activeCategory, selectedTool, promptInput, isGenerating, output,
           savedResources, apiStatus, hasAccess, storage, now, sessions, requests,
           authChecks, authFlows, parseFailures, clearanceAlert >>

\* the state of App after its first render, before any effect has run
Init ==
  /\ aistudio \in BOOLEAN
  /\ envKey \in BOOLEAN
  /\ mounted = FALSE
  /\ activeCategory = TOOL_CATEGORIES[1].id
  /\ selectedTool = TOOLS_CONFIG[1]
  /\ promptInput = << >>
  /\ isGenerating = FALSE
  /\ output = << >>
  /\ savedResources = << >>
  /\ apiStatus = "idle"
  /\ hasAccess = FALSE
  /\ storage \in InitStores
  /\ now = HistoryCap
  /\ sessions = << >>
  /\ requests = 0
  /\ authChecks = 0
  /\ authFlows = 0
  /\ parseFailures = 0
  /\ clearanceAlert = FALSE

(***************************************************************************)
(* Mount: the three effects of the first commit, in declaration order,     *)
(* and the render they cause.  Under React.StrictMode a development build  *)
(* runs the mount effects a second time before that render.                *)
(***************************************************************************)
Mount ==
  /\ ~mounted
  /\ \E dev \in BOOLEAN :
       LET load1   == LoadHistory(storage)
           \* the save effect of the first render writes the initial, empty vault
           stored1 == Stored(Stringify(<< >>))
           load2   == LoadHistory(stored1)
           \* the last setSavedResources call wins
           loaded  == IF dev /\ load2.set THEN load2 ELSE load1
           runs    == IF dev THEN 2 ELSE 1
       IN  /\ savedResources' = IF loaded.set THEN loaded.value ELSE << >>
           /\ storage' = Stored(Stringify(savedResources'))
           /\ parseFailures' = (IF load1.failed THEN 1 ELSE 0) + (IF dev /\ load2.failed THEN 1 ELSE 0)
           /\ IF aistudio
                THEN /\ authChecks' = runs
                     /\ UNCHANGED gateVars
                ELSE /\ hasAccess' = envKey
                     /\ apiStatus' = IF envKey THEN "online" ELSE "error"
                     /\ UNCHANGED authChecks
  /\ selectedTool' = FirstOfCat(activeCategory, selectedTool)
  /\ mounted' = TRUE
  /\ UNCHANGED << envVars, activeCategory, promptInput, isGenerating, output, now, sessions, requests,
                  authFlows, clearanceAlert >>

\* checkAuth resumes after await window.aistudio.hasSelectedApiKey()
CheckAuthResolve ==
  /\ authChecks > 0
  /\ \E hasKey \in BOOLEAN :
       /\ hasAccess' = hasKey
       /\ apiStatus' = IF hasKey THEN "online" ELSE "idle"
  /\ authChecks' = authChecks - 1
  /\ UNCHANGED << envVars, logVars, mounted, catalogVars, isGenerating, output, vaultVars, sessions, requests, authFlows >>

(***************************************************************************)
(* requestAccess                                                           *)
(***************************************************************************)
\* variant of HandleAuth that takes the credential for granted without the dialog too
HandleAuthAssumesKey ==
  /\ mounted
  /\ ~hasAccess
  /\ IF aistudio
       THEN /\ authFlows < MaxAuthFlows
            /\ authFlows' = authFlows + 1
            /\ UNCHANGED << gateVars, clearanceAlert >>
       ELSE /\ hasAccess' = TRUE /\ apiStatus' = "online"
            /\ UNCHANGED << authFlows, clearanceAlert >>
  /\ UNCHANGED << envVars, parseFailures, mounted, catalogVars, isGenerating, output, vaultVars,
                  sessions, requests, authChecks >>

\* a click on one of the two connect buttons, rendered while hasAccess is false
HandleAuth ==
  /\ mounted
  /\ ~hasAccess
  /\ IF aistudio
       THEN /\ authFlows < MaxAuthFlows
            /\ authFlows' = authFlows + 1
            /\ UNCHANGED << gateVars, clearanceAlert >>
       ELSE /\ IF envKey
                 THEN /\ hasAccess' = TRUE /\ apiStatus' = "online"
                      /\ UNCHANGED clearanceAlert
                 ELSE /\ clearanceAlert' = TRUE
                      /\ UNCHANGED gateVars
            /\ UNCHANGED authFlows
  /\ UNCHANGED << envVars, parseFailures, mounted, catalogVars, isGenerating, output, vaultVars,
                  sessions, requests, authChecks >>

\* handleAuth resumes after await window.aistudio.openSelectKey()
AuthFlowReturn ==
  /\ authFlows > 0
  /\ authFlows' = authFlows - 1
  /\ hasAccess' = TRUE
  /\ apiStatus' = "online"
  /\ UNCHANGED << envVars, logVars, mounted, catalogVars, isGenerating, output, vaultVars, sessions, requests, authChecks >>

\* openSelectKey() rejects inside handleAuth
AuthFlowFail ==
  /\ authFlows > 0
  /\ authFlows' = authFlows - 1
  /\ apiStatus' = "error"
  /\ UNCHANGED << envVars, logVars, mounted, catalogVars, isGenerating, output, vaultVars, hasAccess, sessions, requests, authChecks >>

(***************************************************************************)
(* The streaming session controller: handleGenerate                        *)
(***************************************************************************)
\* a handleGenerate invocation suspended at an await, with the values its
\* closure captured and its local variable accumulated
NewSession ==
  [pc |-> "request", tool |-> selectedTool, category |-> activeCategory,
   context |-> promptInput, userPrompt |-> UserPrompt(selectedTool, promptInput),
   accumulated |-> << >>, chunks |-> << >>, error |-> NoMessageFault]

\* variant of HandleGenerate without the isGenerating check
HandleGenerateNoBusyCheck ==
  /\ mounted
  /\ IF ~hasAccess /\ ~envKey
       THEN /\ output' = AccessDeniedMsg
            /\ UNCHANGED << envVars, logVars, mounted, catalogVars, isGenerating, vaultVars, gateVars,
                            sessions, requests, authVars >>
       ELSE /\ requests - Len(sessions) < MaxRequests
            /\ isGenerating' = TRUE
            /\ output' = << >>
            /\ requests' = requests + 1
            /\ sessions' = Append(sessions, NewSession)
            /\ UNCHANGED << envVars, logVars, mounted, catalogVars, vaultVars, gateVars, authVars >>

\* a request to generate (the Initialize button), up to the await of
\* generateContentStream; while isGenerating the button is disabled and the
\* handler returns at once
HandleGenerate ==
  /\ mounted
  /\ IF isGenerating
       THEN UNCHANGED vars
       ELSE IF ~hasAccess /\ ~envKey
         THEN /\ output' = AccessDeniedMsg
              /\ UNCHANGED << envVars, logVars, mounted, catalogVars, isGenerating, vaultVars, gateVars,
                              sessions, requests, authVars >>
         ELSE /\ requests - Len(sessions) < MaxRequests
              /\ isGenerating' = TRUE
              /\ output' = << >>
              /\ requests' = requests + 1
              /\ sessions' = Append(sessions, NewSession)
              /\ UNCHANGED << envVars, logVars, mounted, catalogVars, vaultVars, gateVars, authVars >>

\* await ai.models.generateContentStream(...) resolves: let accumulated = ''
GenRequestResolve(i) ==
  /\ sessions[i].pc = "request"
  /\ sessions' = [sessions EXCEPT ![i].pc = "streaming", ![i].accumulated = << >>]
  /\ UNCHANGED << envVars, logVars, mounted, catalogVars, isGenerating, output, vaultVars, gateVars,
                  requests, authVars >>

\* variant of StreamChunk that puts the new text in front of the accumulator
StreamChunkPrepend(i) ==
  /\ sessions[i].pc = "streaming"
  /\ Len(sessions[i].chunks) < MaxChunks
  /\ LET text == ChunkText(Len(sessions[i].chunks) + 1)
         accumulated == text \o sessions[i].accumulated
     IN  /\ sessions' = [sessions EXCEPT ![i].accumulated = accumulated,
                                         ![i].chunks = Append(@, text)]
         /\ output' = accumulated
  /\ UNCHANGED << envVars, logVars, mounted, catalogVars, isGenerating, vaultVars, gateVars, requests, authVars >>

\* for await: the next chunk arrives
StreamChunk(i) ==
  /\ sessions[i].pc = "streaming"
  /\ Len(sessions[i].chunks) < MaxChunks
  /\ LET text == ChunkText(Len(sessions[i].chunks) + 1)
         accumulated == sessions[i].accumulated \o text
     IN  /\ sessions' = [sessions EXCEPT ![i].accumulated = accumulated,
                                         ![i].chunks = Append(@, text)]
         /\ output' = accumulated
  /\ UNCHANGED << envVars, logVars, mounted, catalogVars, isGenerating, vaultVars, gateVars, requests, authVars >>

\* variant of StreamClose that reads the selection of the latest render
StreamCloseReadsCurrent(i) ==
  /\ sessions[i].pc = "streaming"
  /\ \E t \in { now + 1 } :
       LET newResource == [id |-> ToString(t),
                           toolName |-> selectedTool.name,
                           categoryName |-> CategoryNameOf(sessions[i].category),
                           content |-> sessions[i].accumulated,
                           timestamp |-> t]
       IN  /\ savedResources' = Record(savedResources, newResource)
           /\ now' = t
  /\ storage' = Stored(Stringify(savedResources'))
  /\ isGenerating' = FALSE
  /\ sessions' = RemoveAt(sessions, i)
  /\ UNCHANGED << envVars, logVars, mounted, catalogVars, output, gateVars, requests, authVars >>

\* for await: the stream closes; the result is recorded, then finally
StreamClose(i) ==
  /\ sessions[i].pc = "streaming"
  /\ \E t \in { now + 1 } :
       LET newResource == [id |-> ToString(t),
                           toolName |-> sessions[i].tool.name,
                           categoryName |-> CategoryNameOf(sessions[i].category),
                           content |-> sessions[i].accumulated,
                           timestamp |-> t]
       IN  /\ savedResources' = Record(savedResources, newResource)
           /\ now' = t
  /\ storage' = Stored(Stringify(savedResources'))
  /\ isGenerating' = FALSE
  /\ sessions' = RemoveAt(sessions, i)
  /\ UNCHANGED << envVars, logVars, mounted, catalogVars, output, gateVars, requests, authVars >>

\* variant of Catch that sets the status but leaves hasAccess alone
CatchKeepsAccess(i, error) ==
  IF IsStaleCredential(error)
    THEN /\ apiStatus' = "error"
         /\ UNCHANGED hasAccess
         /\ IF aistudio
              THEN /\ sessions' = [sessions EXCEPT ![i].pc = "reauth", ![i].error = error]
                   /\ UNCHANGED << output, isGenerating >>
              ELSE /\ output' = FailureMessage(error)
                   /\ isGenerating' = FALSE
                   /\ sessions' = RemoveAt(sessions, i)
    ELSE /\ output' = FailureMessage(error)
         /\ isGenerating' = FALSE
         /\ sessions' = RemoveAt(sessions, i)
         /\ UNCHANGED gateVars

\* catch (error) up to its await or, without one, through finally
Catch(i, error) ==
  IF IsStaleCredential(error)
    THEN /\ hasAccess' = FALSE
         /\ apiStatus' = "error"
         /\ IF aistudio
              THEN /\ sessions' = [sessions EXCEPT ![i].pc = "reauth", ![i].error = error]
                   /\ UNCHANGED << output, isGenerating >>
              ELSE /\ output' = FailureMessage(error)
                   /\ isGenerating' = FALSE
                   /\ sessions' = RemoveAt(sessions, i)
    ELSE /\ output' = FailureMessage(error)
         /\ isGenerating' = FALSE
         /\ sessions' = RemoveAt(sessions, i)
         /\ UNCHANGED gateVars

\* await ai.models.generateContentStream(...) rejects
GenRequestReject(i, error) ==
  /\ sessions[i].pc = "request"
  /\ Catch(i, error)
  /\ UNCHANGED << envVars, logVars, mounted, catalogVars, vaultVars, requests, authVars >>

\* for await: the stream throws
StreamFault(i, error) ==
  /\ sessions[i].pc = "streaming"
  /\ Catch(i, error)
  /\ UNCHANGED << envVars, logVars, mounted, catalogVars, vaultVars, requests, authVars >>

\* variant of ReauthReturn that issues the request again once a key was selected
ReauthReturnRetries(i) ==
  /\ sessions[i].pc = "reauth"
  /\ hasAccess' = TRUE
  /\ apiStatus' = "online"
  /\ IF requests - Len(sessions) < MaxRequests
       THEN /\ requests' = requests + 1
            /\ sessions' = [sessions EXCEPT ![i].pc = "request"]
            /\ UNCHANGED << output, isGenerating >>
       ELSE /\ output' = FailureMessage(sessions[i].error)
            /\ isGenerating' = FALSE
            /\ sessions' = RemoveAt(sessions, i)
            /\ UNCHANGED requests
  /\ UNCHANGED << envVars, logVars, mounted, catalogVars, vaultVars, authVars >>

\* catch resumes after await window.aistudio.openSelectKey(), then finally
ReauthReturn(i) ==
  /\ sessions[i].pc = "reauth"
  /\ hasAccess' = TRUE
  /\ apiStatus' = "online"
  /\ output' = FailureMessage(sessions[i].error)
  /\ isGenerating' = FALSE
  /\ sessions' = RemoveAt(sessions, i)
  /\ UNCHANGED << envVars, logVars, mounted, catalogVars, vaultVars, requests, authVars >>

\* variant of ReauthFail in which the rejection skips the finally block
ReauthFailNoFinally(i) ==
  /\ sessions[i].pc = "reauth"
  /\ sessions' = RemoveAt(sessions, i)
  /\ UNCHANGED << envVars, logVars, mounted, catalogVars, isGenerating, output, vaultVars, gateVars, requests,
                  authVars >>

\* openSelectKey() rejects inside catch: the rejection leaves the handler through finally
ReauthFail(i) ==
  /\ sessions[i].pc = "reauth"
  /\ isGenerating' = FALSE
  /\ sessions' = RemoveAt(sessions, i)
  /\ UNCHANGED << envVars, logVars, mounted, catalogVars, output, vaultVars, gateVars, requests, authVars >>

(***************************************************************************)
(* The history vault and the selectors                                     *)
(***************************************************************************)
\* a click on a vault entry
LoadFromHistory(resource) ==
  /\ mounted
  /\ output' = resource.content
  /\ UNCHANGED << envVars, logVars, mounted, catalogVars, isGenerating, vaultVars, gateVars, sessions,
                  requests, authVars >>

\* variant of ClearHistory that removes the stored item and leaves the vault
ClearHistoryStorageOnly(confirmed) ==
  /\ mounted
  /\ IF confirmed
       THEN /\ storage' = Absent
            /\ UNCHANGED savedResources
       ELSE UNCHANGED << savedResources, storage >>
  /\ UNCHANGED << envVars, logVars, mounted, catalogVars, isGenerating, output, now, gateVars, sessions,
                  requests, authVars >>

\* Purge Vault, with the user's answer to confirm(): on yes the vault is
\* emptied and the item removed; the save effect of the following render
\* writes the empty vault
ClearHistory(confirmed) ==
  /\ mounted
  /\ IF confirmed
       THEN /\ savedResources' = << >>
            /\ storage' = Stored(Stringify(savedResources'))
       ELSE UNCHANGED << savedResources, storage >>
  /\ UNCHANGED << envVars, logVars, mounted, catalogVars, isGenerating, output, now, gateVars, sessions,
                  requests, authVars >>

\* a click on a category; the category effect runs when the value changed
SetActiveCategory(catId) ==
  /\ mounted
  /\ activeCategory' = catId
  /\ selectedTool' = IF catId = activeCategory THEN selectedTool ELSE FirstOfCat(catId, selectedTool)
  /\ UNCHANGED << envVars, logVars, mounted, promptInput, isGenerating, output, vaultVars, gateVars, sessions, requests,
                  authVars >>

\* a click on one of the tools listed for the active category
SelectTool(i) ==
  /\ mounted
  /\ i \in FilteredTools(activeCategory)
  /\ selectedTool' = TOOLS_CONFIG[i]
  /\ UNCHANGED << envVars, logVars, mounted, activeCategory, promptInput, isGenerating, output, vaultVars, gateVars,
                  sessions, requests, authVars >>

\* the context field is edited
SetPromptInput(text) ==
  /\ mounted
  /\ promptInput' = text
  /\ UNCHANGED << envVars, logVars, mounted, activeCategory, selectedTool, isGenerating, output,
                  vaultVars, gateVars, sessions, requests, authVars >>

\* Auto-Inject: the example of the selected tool becomes the context
AutoInject ==
  /\ mounted
  /\ promptInput' = << selectedTool.examplePrompt >>
  /\ UNCHANGED << envVars, logVars, mounted, activeCategory, selectedTool, isGenerating, output,
                  vaultVars, gateVars, sessions, requests, authVars >>

(***************************************************************************)
(* Specification                                                           *)
(***************************************************************************)
\* the steps in which a suspended handleGenerate invocation resumes
GenStep ==
  \E i \in 1..Len(sessions) :
     \/ GenRequestResolve(i)
     \/ StreamChunk(i)
     \/ StreamClose(i)
     \/ \E error \in Faults : GenRequestReject(i, error)
     \/ \E error \in Faults : StreamFault(i, error)
     \/ ReauthReturn(i)
     \/ ReauthFail(i)

Next ==
  \/ Mount
  \/ CheckAuthResolve
  \/ HandleAuth
  \/ AuthFlowReturn
  \/ AuthFlowFail
  \/ HandleGenerate
  \/ GenStep
  \/ \E resource \in { savedResources[i] : i \in 1..Len(savedResources) } : LoadFromHistory(resource)
  \/ \E confirmed \in BOOLEAN : ClearHistory(confirmed)
  \/ \E catId \in UserCategories : SetActiveCategory(catId)
  \/ \E i \in UserTools : SelectTool(i)

Spec == Init /\ [][Next]_vars

\* suspended invocations are resumed: streams end and dialogs return control
FairSpec == Spec /\ WF_vars(GenStep)

(***************************************************************************)
(* The prompt composer.  The context only enters the text of the request,  *)
(* which no later step of the program reads, so the specification above    *)
(* keeps the context field empty; this one starts with the gate open, any  *)
(* catalog tool selected and any context typed, and composes requests.     *)
(***************************************************************************)
ComposerInit ==
  /\ aistudio \in BOOLEAN
  /\ envKey \in BOOLEAN
  /\ aistudio \/ envKey
  /\ mounted = TRUE
  /\ \E i \in 1..Len(TOOLS_CONFIG) :
       /\ selectedTool = TOOLS_CONFIG[i]
       /\ activeCategory = TOOLS_CONFIG[i].categoryId
  /\ promptInput \in Contexts
  /\ isGenerating = FALSE
  /\ output = << >>
  /\ savedResources = << >>
  /\ apiStatus = "online"
  /\ hasAccess = TRUE
  /\ storage = Stored(Stringify(<< >>))
  /\ now = HistoryCap
  /\ sessions = << >>
  /\ requests = 0
  /\ authChecks = 0
  /\ authFlows = 0
  /\ parseFailures = 0
  /\ clearanceAlert = FALSE

ComposerNext ==
  \/ \E text \in Contexts : SetPromptInput(text)
  \/ AutoInject
  \/ HandleGenerate

ComposerSpec == ComposerInit /\ [][ComposerNext]_vars

(***************************************************************************)
(* Vocabulary of the properties                                            *)
(***************************************************************************)
RECURSIVE Concat(_)
Concat(texts) == IF texts = << >> THEN << >> ELSE Head(texts) \o Concat(Tail(texts))

\* the fault's message contains the text
Mentions(error, needle) == error.hasMessage /\ Includes(error.message, needle)

\* the step in which invocation i catches the fault
FaultCaught(i, error) == GenRequestReject(i, error) \/ StreamFault(i, error)

\* the step in which an invocation leaves the handler
Settles == Len(sessions') < Len(sessions)

\* the step in which invocation i settles in failure
AttemptFails(i) ==
  /\ \/ \E error \in Faults : FaultCaught(i, error)
     \/ ReauthReturn(i)
     \/ ReauthFail(i)
  /\ Settles

(***************************************************************************)
(* Properties                                                              *)
(***************************************************************************)
\* C1: the vault never holds more than 15 entries, and every record (a
\* stream that closes) leaves min(15, prior length + 1) entries: the new
\* entry first, then the prior entries in their prior order, the oldest
\* dropped when there were 15.
VaultBoundAndOrder ==
  /\ [](Len(savedResources) <= HistoryCap)
  /\ [][\A i \in 1..Len(sessions) : StreamClose(i) =>
          /\ Len(savedResources') = Min(HistoryCap, Len(savedResources) + 1)
          /\ savedResources'[1].content = sessions[i].accumulated
          /\ savedResources'[1].timestamp = now' /\ now' > now
          /\ \A j \in 2..Len(savedResources') : savedResources'[j] = savedResources[j - 1]]_vars

\* C1 witness: a record into a full vault dropped the oldest entry
VaultTruncated ==
  /\ Len(savedResources) = HistoryCap
  /\ savedResources[1].timestamp = HistoryCap + 1
  /\ savedResources[HistoryCap] = PriorEntry(2)

\* C2: at most one generation attempt is active, the in-progress indicator
\* is set exactly while one is, and a request to generate made while
\* isGenerating is true issues no service request, queues nothing and
\* changes neither the output, the running attempt, the vault nor the gate.
SingleGenerationInFlight ==
  /\ [](Len(sessions) <= 1 /\ (isGenerating <=> Len(sessions) = 1))
  /\ [][isGenerating =>
          /\ requests' = requests
          /\ Len(sessions') <= Len(sessions)
          /\ HandleGenerate => UNCHANGED << output, sessions, savedResources, storage,
                                            apiStatus, hasAccess >>]_vars

\* C2 witness: an attempt is streaming with one increment published when
\* generation is requested again
GenerationBusy ==
  /\ isGenerating
  /\ Len(sessions) = 1
  /\ sessions[1].pc = "streaming"
  /\ Len(sessions[1].chunks) = 1
  /\ ENABLED HandleGenerate

\* C3: when an attempt settles in failure, the visible output is one of the
\* two fixed failure messages (so none of the partial text remains).
FailureReplacesPartialOutput ==
  [][\A i \in 1..Len(sessions) : AttemptFails(i) => output' \in { AuthFailedMsg, NetworkMsg }]_vars

\* C4: every invocation that was accepted eventually leaves the handler
\* with isGenerating false, whatever its outcome.
ReturnsToAccepting ==
  (isGenerating \/ Len(sessions) > 0) ~> (~isGenerating /\ Len(sessions) = 0)

\* C4 witness: a failed attempt has settled and the controller accepts again
AcceptingAfterFailure ==
  /\ requests > 0
  /\ ~isGenerating
  /\ Len(sessions) = 0
  /\ output \in { AuthFailedMsg, NetworkMsg }

\* C5: a request to generate made while the published gate status is not
\* 'online' and there is no environment credential shows the Access Denied
\* message and changes nothing else; a service request is issued only
\* while the gate is online or an environment credential exists.
EntryGuardOnGateStatus ==
  [][/\ (HandleGenerate /\ ~isGenerating /\ apiStatus # "online" /\ ~envKey) =>
          /\ output' = AccessDeniedMsg
          /\ UNCHANGED << requests, sessions, isGenerating, savedResources, storage, apiStatus, hasAccess >>
     /\ requests' # requests => (apiStatus = "online" \/ envKey)]_vars

\* the entry guard as the handler computes it, on the access flag
EntryGuardOnAccessFlag ==
  [][/\ (HandleGenerate /\ ~isGenerating /\ ~hasAccess /\ ~envKey) =>
          /\ output' = AccessDeniedMsg
          /\ UNCHANGED << requests, sessions, isGenerating, savedResources, storage, apiStatus, hasAccess >>
     /\ requests' # requests => (hasAccess \/ envKey)]_vars

StaleCredentialRecovery ==
  [][\A i \in 1..Len(sessions) :
       /\ \A error \in Faults : (FaultCaught(i, error) /\ Mentions(error, NotFoundNeedle)) =>
            /\ ~hasAccess' /\ apiStatus' = "error"
            /\ aistudio => /\ ~Settles
                           /\ sessions'[i].pc = "reauth"
                           /\ sessions'[i].error = error
            /\ ~aistudio => Settles
       /\ ReauthReturn(i) => hasAccess' /\ apiStatus' = "online"]_vars

\* C7 witness: the gate is Error while the handler waits for the selection flow
ReauthPending ==
  /\ Len(sessions) = 1
  /\ sessions[1].pc = "reauth"
  /\ ~hasAccess
  /\ apiStatus = "error"

\* C8: whenever a failure message is published it is the authentication
\* failed message if the fault's message contains "API_KEY", and the network
\* interruption message otherwise, also for a fault without a message.
FailureMessageClassification ==
  [][\A i \in 1..Len(sessions) :
       /\ \A error \in Faults : (FaultCaught(i, error) /\ Settles) =>
            /\ Mentions(error, ApiKeyNeedle) => output' = AuthFailedMsg
            /\ ~Mentions(error, ApiKeyNeedle) => output' = NetworkMsg
            /\ ~error.hasMessage => output' = NetworkMsg
       /\ ReauthReturn(i) =>
            /\ Mentions(sessions[i].error, ApiKeyNeedle) => output' = AuthFailedMsg
            /\ ~Mentions(sessions[i].error, ApiKeyNeedle) => output' = NetworkMsg]_vars

\* C8 witness: an attempt failed on a fault that mentions the key
AuthFailureShown ==
  /\ output = AuthFailedMsg
  /\ ~isGenerating
  /\ requests > 0

\* C9: a failed attempt shows the authentication failed message exactly when
\* its fault reset the gate: no reset with the network interruption message,
\* no authentication failed message with the gate left alone.
CredentialRejectedCoherent ==
  [][\A i \in 1..Len(sessions) :
       /\ \A error \in Faults : (FaultCaught(i, error) /\ Settles) =>
            (output' = AuthFailedMsg <=> Mentions(error, NotFoundNeedle))
       /\ ReauthReturn(i) => output' = AuthFailedMsg]_vars

\* C10: a caught fault that is not an entity-not-found signal settles the
\* attempt, clears the in-progress indicator and leaves the gate, the vault
\* and the durable snapshot as they were; unless it is a credential signal
\* (its message mentions the key) the output becomes the network
\* interruption message.
TransportFaultFrame ==
  [][\A i \in 1..Len(sessions) : \A error \in Faults :
       (FaultCaught(i, error) /\ ~Mentions(error, NotFoundNeedle)) =>
          /\ UNCHANGED << apiStatus, hasAccess, savedResources, storage, now, requests >>
          /\ Settles
          /\ ~isGenerating'
          /\ ~Mentions(error, ApiKeyNeedle) => output' = NetworkMsg]_vars

\* C10 witness: with both availability checks still pending and the gate
\* never touched, an attempt admitted by the environment credential failed
\* on a transport fault
TransportFaultSettled ==
  /\ authChecks = 2
  /\ authFlows = 0
  /\ ~hasAccess
  /\ apiStatus = "idle"
  /\ output = NetworkMsg
  /\ ~isGenerating
  /\ requests > 0

\* C11: a confirmed purge leaves the in-memory vault empty and the durable
\* snapshot absent or decoding to the empty sequence, so that a restart
\* reading the same key loads an empty vault, also while a generation is
\* streaming; and outside a program step the vault and its snapshot never
\* differ, so neither alone keeps purged entries.
PurgeClearsBoth ==
  /\ [][ClearHistory(TRUE) =>
          /\ savedResources' = << >>
          /\ ~storage'.present \/ (Parse(storage'.text).ok /\ Parse(storage'.text).value = << >>)
          /\ LoadHistory(storage').value = << >>]_vars
  /\ [](mounted => /\ storage.present
                   /\ Parse(storage.text).ok
                   /\ Parse(storage.text).value = savedResources)

\* C11 witness: the vault was purged while an attempt was streaming, after an
\* entry of the then non-empty vault had been loaded into the output
PurgedWhileStreaming ==
  /\ isGenerating
  /\ Len(sessions) = 1
  /\ sessions[1].pc = "streaming"
  /\ Len(sessions[1].chunks) = 1
  /\ output = PriorEntry(1).content
  /\ savedResources = << >>
  /\ storage = Stored(Stringify(<< >>))

\* C12: a start on a stored text that is not valid JSON ends with the vault
\* empty and nothing shown to the user (the failure goes to the console
\* only); the program is mounted and works on: the first generation that
\* then succeeds leaves a vault of exactly one entry, stored as such.
CorruptSnapshotRecovery ==
  /\ [][(Mount /\ storage.present /\ storage.text # << >> /\ ~Parse(storage.text).ok) =>
          /\ savedResources' = << >>
          /\ output' = output
          /\ mounted'
          /\ parseFailures' > 0
          /\ Parse(storage'.text).ok /\ Parse(storage'.text).value = << >>]_vars
  /\ [][\A i \in 1..Len(sessions) : (StreamClose(i) /\ parseFailures > 0 /\ requests = 1) =>
          /\ Len(savedResources') = 1
          /\ savedResources'[1].content = sessions[i].accumulated
          /\ Parse(storage'.text).value = savedResources']_vars

\* C12 witness: after a start on a corrupt snapshot a generation of two
\* increments succeeded and is the only entry of the vault
RecordedAfterCorruptStart ==
  /\ parseFailures = 1
  /\ requests = 1
  /\ ~isGenerating
  /\ Len(savedResources) = 1
  /\ savedResources[1].content = ChunkText(1) \o ChunkText(2)
  /\ storage = Stored(Stringify(savedResources))

\* C13: once the program is mounted the stored snapshot always decodes to
\* exactly the in-memory vault, after every record and every purge; and a
\* start on a well-formed snapshot of at most 15 entries ends, when the mount
\* effects have run (once, or twice under StrictMode), with the vault and
\* the snapshot both equal to what was stored.
PersistenceRoundTrip ==
  /\ [](mounted => /\ storage.present
                   /\ Parse(storage.text).ok
                   /\ Parse(storage.text).value = savedResources)
  /\ [][(/\ Mount
         /\ storage.present
         /\ Parse(storage.text).ok
         /\ Len(Parse(storage.text).value) <= HistoryCap) =>
            /\ savedResources' = Parse(storage.text).value
            /\ Parse(storage'.text).ok
            /\ Parse(storage'.text).value = Parse(storage.text).value]_vars

\* C14: a service request is issued only by an accepted request to generate,
\* one per invocation; no resumption of a suspended invocation issues one,
\* in particular not the failure that shows "Retrying connection..." nor the
\* return of the key selection re-opened for a stale credential.
NoAutomaticRetry ==
  /\ [](Len(sessions) <= requests)
  /\ [][/\ requests' # requests =>
             /\ HandleGenerate
             /\ ~isGenerating
             /\ requests' = requests + 1
             /\ sessions' = Append(sessions, sessions'[Len(sessions')])
             /\ sessions'[Len(sessions')].pc = "request"
        /\ GenStep => requests' = requests
        /\ \A i \in 1..Len(sessions) :
             (AttemptFails(i) \/ ReauthReturn(i)) =>
                /\ requests' = requests
                /\ \A j \in 1..Len(sessions') : sessions'[j].pc # "request"]_vars

\* C14 witness: the key selection re-opened for a stale credential returned,
\* the retry advice is shown and still only one request was issued
RetryAdviceShown ==
  /\ aistudio
  /\ output = NetworkMsg
  /\ hasAccess
  /\ apiStatus = "online"
  /\ authChecks = 2
  /\ authFlows = 0
  /\ requests = 1
  /\ Len(sessions) = 0
  /\ ~isGenerating

\* C15: a request for access without the interactive capability sets the
\* gate Online when an environment credential exists; when none exists it
\* leaves hasAccess and apiStatus (and everything but the alert) as they
\* were and raises the clearance-required alert.  With the capability the
\* gate is untouched while the selection flow is open and becomes Online
\* when the flow returns, with no availability check issued.
RequestAccessFrame ==
  [][/\ (HandleAuth /\ ~aistudio /\ envKey) =>
          /\ hasAccess' /\ apiStatus' = "online"
          /\ clearanceAlert' = clearanceAlert
     /\ (HandleAuth /\ ~aistudio /\ ~envKey) =>
          /\ clearanceAlert'
          /\ UNCHANGED << hasAccess, apiStatus, output, isGenerating, sessions, requests,
                          savedResources, storage, authChecks, authFlows >>
     /\ (HandleAuth /\ aistudio) =>
          /\ authFlows' = authFlows + 1
          /\ UNCHANGED << hasAccess, apiStatus, clearanceAlert >>
     /\ AuthFlowReturn =>
          /\ hasAccess' /\ apiStatus' = "online"
          /\ UNCHANGED << authChecks, clearanceAlert >>]_vars

\* C15 witness: access was requested with neither the capability nor an
\* environment credential; the alert was raised and the gate is as the
\* startup check left it
ClearanceRequired ==
  /\ ~aistudio
  /\ ~envKey
  /\ clearanceAlert
  /\ ~hasAccess
  /\ apiStatus = "error"

\* the text between the Context label and the line of the Core Task label
ContextOf(prompt) ==
  LET c == FirstOf({ j \in 1..Len(prompt) : prompt[j] = "**Context:**" })
      k == FirstOf({ j \in 1..Len(prompt) : prompt[j] = "**Core Task:**" })
  IN  SubSeq(prompt, c + 1, k - 2)

IsBlank(text) == \A j \in 1..Len(text) : text[j] \in WhiteSpace

\* the directive naming the tool comes first, the context second, the
\* tool's base prompt third and last
ComposedInOrder(s) ==
  LET c == FirstOf({ j \in 1..Len(s.userPrompt) : s.userPrompt[j] = "**Context:**" })
      k == FirstOf({ j \in 1..Len(s.userPrompt) : s.userPrompt[j] = "**Core Task:**" })
  IN  /\ s.userPrompt[1] = "**Directive:**"
      /\ s.userPrompt[3] = s.tool.name
      /\ 3 < c /\ c < k
      /\ k + 1 = Len(s.userPrompt)
      /\ s.userPrompt[k + 1] = s.tool.basePrompt

\* C16: in every request issued, for every catalog tool, the Context
\* position holds the default phrase when the context typed was empty or
\* white space only and the typed context verbatim otherwise, with the
\* directive first, the context second and the base prompt third.
ComposerDefaultContext ==
  \A i \in 1..Len(sessions) :
     /\ ComposedInOrder(sessions[i])
     /\ IsBlank(sessions[i].context) => ContextOf(sessions[i].userPrompt) = DefaultContext
     /\ ~IsBlank(sessions[i].context) => ContextOf(sessions[i].userPrompt) = sessions[i].context

\* the composer as the code computes it: the default for the empty context only
ComposerDefaultWhenEmpty ==
  \A i \in 1..Len(sessions) :
     /\ ComposedInOrder(sessions[i])
     /\ sessions[i].context = << >> => ContextOf(sessions[i].userPrompt) = DefaultContext
     /\ sessions[i].context # << >> => ContextOf(sessions[i].userPrompt) = sessions[i].context

\* C17: in every reachable state the access flag and the published status
\* agree: hasAccess is true exactly when apiStatus is 'online'.
GateFlagsAgree == hasAccess <=> apiStatus = "online"

\* C18: while an attempt is streaming the visible output is that attempt's
\* accumulator, whatever else the user does meanwhile.
OutputOwnedByAttempt ==
  \A i \in 1..Len(sessions) : sessions[i].pc = "streaming" => output = sessions[i].accumulated

\* the pair (toolName, categoryName) is that of one catalog tool and its category
CatalogPair(entry) ==
  \E t \in 1..Len(TOOLS_CONFIG) :
     /\ entry.toolName = TOOLS_CONFIG[t].name
     /\ entry.categoryName = CategoryNameOf(TOOLS_CONFIG[t].categoryId)

\* C19: the selected tool always belongs to the active category; the entry
\* recorded when a stream closes carries the name of the tool selected when
\* its invocation started and the display name of that tool's category,
\* whatever is selected by then; so every entry of the vault pairs a
\* catalog tool with its own category.
RecordedEntryMatchesRequest ==
  /\ [](selectedTool.categoryId = activeCategory)
  /\ [](\A j \in 1..Len(savedResources) : CatalogPair(savedResources[j]))
  /\ [](\A i \in 1..Len(sessions) : sessions[i].tool.categoryId = sessions[i].category)
  /\ [][\A i \in 1..Len(sessions) : StreamClose(i) =>
          /\ savedResources'[1].toolName = sessions[i].tool.name
          /\ savedResources'[1].categoryName = CategoryNameOf(sessions[i].tool.categoryId)]_vars

\* C19 witness: while an attempt started on the first tool has received all
\* its increments and is about to be recorded, the user has moved to the
\* last category and its tool
SelectionChangedWhileStreaming ==
  /\ Len(sessions) = 1
  /\ sessions[1].pc = "streaming"
  /\ Len(sessions[1].chunks) = MaxChunks
  /\ sessions[1].tool = TOOLS_CONFIG[1]
  /\ selectedTool = TOOLS_CONFIG[Len(TOOLS_CONFIG)]
  /\ activeCategory = TOOLS_CONFIG[Len(TOOLS_CONFIG)].categoryId
  /\ ENABLED StreamClose(1)

\* the part of the round trip that concerns the mutations after the start
SnapshotFollowsVault ==
  /\ [](mounted => /\ storage.present
                   /\ Parse(storage.text).ok
                   /\ Parse(storage.text).value = savedResources)
  /\ [][\A i \in 1..Len(sessions) : StreamClose(i) => Parse(storage'.text).value = savedResources']_vars

====
